---- MODULE Spec2Model ----
(***************************************************************************)
(* Model of klippy/extras/smooth_axis.py: the SmoothAxis controller, its   *)
(* connect handler, _set_smoothing and the SET_SMOOTH_AXIS command.        *)
(*                                                                         *)
(* Numbers: a float is encoded as the integer 100*u + e, order-preserving,  *)
(* with u whole units (Hz for a frequency, tenths for a damping ratio) and *)
(* e in 0..99 further units of 1e-10: 4000 is 40 Hz, 1000 is the damping   *)
(* ratio 1.0, 104 is the damping ratio 0.1000000004.  Half-smooth-times    *)
(* are whole microseconds.                                                 *)
(***************************************************************************)
EXTENDS Integers, Sequences, FiniteSets, TLC

\* ---------------------------------------------------------------- bounds
NumSteppers == 2
MaxParams == 2

\* ------------------------------------------------------ program constants
damping_minval == 0
damping_maxval == 1000
freq_minval == 0

\* ------------------------------------------------------------ input sets
Steppers == 1..NumSteppers
Freqs == {0, 4000}
Dampings == {0, 100}
BadFreqs == {0 - 4000}
BadDampings == {1500}
ParamKeys == {"SMOOTHER", "TARGET_FREQ_X", "TARGET_FREQ_Y",
              "DAMPING_RATIO_X", "DAMPING_RATIO_Y"}
ConfigSmoothers == {"sifp05", "siaf05"}
CmdSmoothers == {"sifp05", "SIAF05", "BOGUS"}

\* self.smoothers (lines 22-27): name -> ffi enum value
smoothers ==
    [n \in {"sifp05", "siaf05", "dfsf05", "dfaf05", "dfaf02", "dfaf01"} |->
        CASE n = "sifp05" -> 0
          [] n = "siaf05" -> 1
          [] n = "dfsf05" -> 2
          [] n = "dfaf05" -> 3
          [] n = "dfaf02" -> 4
          [] n = "dfaf01" -> 5]

\* str.lower() (line 94) on the strings the commands of the model carry
lower(s) ==
    CASE s = "SIAF05" -> "siaf05"
      [] s = "BOGUS" -> "bogus"
      [] OTHER -> s

\* the attributes __init__ creates on the object (lines 12-31)
SelfAttrs == {"printer", "toolhead", "damping_ratio_x", "damping_ratio_y",
              "target_freq_x", "target_freq_y", "smoothers", "smoother_type",
              "stepper_kinematics", "orig_stepper_kinematics"}

\* max() of lines 62 and 67
Max(a, b) == IF a >= b THEN a ELSE b

\* ffi_lib.smooth_axis_get_half_smooth_time: pure, 0 when filtering is off
half_smooth_time(type, freq, damping) ==
    IF freq <= 0 THEN 0 ELSE ((type + 2) * 10000 * (1000 + damping)) \div freq

VARIABLES
    toolhead,                 \* "None" until connect (lines 14, 38)
    smoother_type, damping_ratio_x, damping_ratio_y,
    target_freq_x, target_freq_y,
    hst_x, hst_y,             \* -1: the attribute does not exist yet
    stepper_sk,               \* stepper -> kinematics installed in it
    stepper_trapq,            \* stepper -> connect called set_trapq on it
    stepper_kinematics,       \* list of wrapper handles
    orig_stepper_kinematics,  \* list of original handles
    sk_params,                \* stepper -> <<>> or <<parameters of its wrapper>>
    scan_time,                \* delay of the last note_step_generation_scan_time
    last,                     \* the last handler, how it ended, what it emitted
    pending,                  \* SpecSteps: what the running command has yet to do
    run,                      \* SpecSteps: <<>> or <<the running command's entry>>
    seen,                     \* SpecSteps: <<>> or <<s, what a reader saw in s>>
    hist                      \* SpecTwice: the params of the last successful
                              \* command, twice when the one before was the same

ctl == <<smoother_type, damping_ratio_x, damping_ratio_y,
         target_freq_x, target_freq_y>>
hst == <<hst_x, hst_y>>
bind == <<stepper_sk, stepper_trapq, stepper_kinematics, orig_stepper_kinematics>>
steps == <<pending, run, seen>>
aux == <<steps, hist>>
vars == <<toolhead, ctl, hst, bind, sk_params, scan_time, last, aux>>

NoParams == [k \in ParamKeys |-> <<>>]

\* the commands of the model: at most MaxParams parameters per command
ParamsOn(K) ==
    [SMOOTHER : IF "SMOOTHER" \in K THEN {<<n>> : n \in CmdSmoothers} ELSE {<<>>},
     TARGET_FREQ_X : IF "TARGET_FREQ_X" \in K
                     THEN {<<f>> : f \in Freqs \cup BadFreqs} ELSE {<<>>},
     TARGET_FREQ_Y : IF "TARGET_FREQ_Y" \in K
                     THEN {<<f>> : f \in Freqs \cup BadFreqs} ELSE {<<>>},
     DAMPING_RATIO_X : IF "DAMPING_RATIO_X" \in K
                       THEN {<<d>> : d \in Dampings \cup BadDampings} ELSE {<<>>},
     DAMPING_RATIO_Y : IF "DAMPING_RATIO_Y" \in K
                       THEN {<<d>> : d \in Dampings \cup BadDampings} ELSE {<<>>}]

CmdParams ==
    UNION {ParamsOn(K) : K \in {J \in SUBSET ParamKeys : Cardinality(J) <= MaxParams}}

\* results of smooth_axis_set_sk for the steppers of the kinematics
WrapResults == [Steppers -> {0 - 1, 0}]

\* __init__ (lines 11-36); the configuration is range-checked by config.getfloat
\* and config.getchoice
Init ==
    /\ toolhead = "None"
    /\ smoother_type \in {smoothers[n] : n \in ConfigSmoothers}
    /\ damping_ratio_x \in Dampings
    /\ damping_ratio_y \in Dampings
    /\ target_freq_x \in Freqs
    /\ target_freq_y \in Freqs
    /\ hst_x = 0 - 1
    /\ hst_y = 0 - 1
    /\ stepper_sk = [s \in Steppers |-> <<"orig", s>>]
    /\ stepper_trapq = [s \in Steppers |-> FALSE]
    /\ stepper_kinematics = <<>>
    /\ orig_stepper_kinematics = <<>>
    /\ sk_params = [s \in Steppers |-> <<>>]
    /\ scan_time = 0
    /\ last = [op |-> "init", result |-> "ok", noted |-> FALSE, respond |-> <<>>]
    /\ pending = <<>>
    /\ run = <<>>
    /\ seen = <<>>
    /\ hist = <<>>

\* gcode.get_float(name, params, default, minval, maxval); maxval is <<>> or <<m>>
get_float(p, default, minval, maxval) ==
    IF p = <<>> THEN [ok |-> TRUE, v |-> default]
    ELSE IF p[1] < minval \/ (maxval # <<>> /\ p[1] > maxval[1])
         THEN [ok |-> FALSE, v |-> default]
         ELSE [ok |-> TRUE, v |-> p[1]]

\* toolhead.note_step_generation_scan_time(delay, old_delay): TRUE when it
\* returns, FALSE when it raises; only a larger window can be refused
note_step_generation_scan_time(delay, old_delay, accept) ==
    accept \/ delay <= old_delay

\* ffi_lib.smooth_axis_set_params(sk, type_x, type_y, freq_x, freq_y, dr_x, dr_y)
smooth_axis_set_params(type_x, type_y, freq_x, freq_y, dr_x, dr_y) ==
    [type_x |-> type_x, type_y |-> type_y,
     target_freq_x |-> freq_x, target_freq_y |-> freq_y,
     damping_ratio_x |-> dr_x, damping_ratio_y |-> dr_y]

\* set_smoothing_hst with the X frequency and damping ratio in line 65 too
set_smoothing_hst_both_x(type, dr_x, dr_y, freq_x, freq_y) ==
    [x |-> half_smooth_time(smoother_type, target_freq_x, damping_ratio_x),
     y |-> half_smooth_time(smoother_type, target_freq_x, damping_ratio_x)]

\* set_smoothing_hst computed from the arguments of _set_smoothing
set_smoothing_hst_of_args(type, dr_x, dr_y, freq_x, freq_y) ==
    [x |-> half_smooth_time(type, freq_x, dr_x),
     y |-> half_smooth_time(type, freq_y, dr_y)]

\* lines 63-66: the half-smooth-times _set_smoothing stores
set_smoothing_hst(type, dr_x, dr_y, freq_x, freq_y) ==
    [x |-> half_smooth_time(smoother_type, target_freq_x, damping_ratio_x),
     y |-> half_smooth_time(smoother_type, target_freq_y, damping_ratio_y)]

\* set_smoothing_commit with the two frequencies stored in each other's field
set_smoothing_commit_swapped(type, dr_x, dr_y, freq_x, freq_y) ==
    [smoother_type |-> type,
     damping_ratio_x |-> dr_x, damping_ratio_y |-> dr_y,
     target_freq_x |-> freq_y, target_freq_y |-> freq_x]

\* lines 70-74: the parameters _set_smoothing stores
set_smoothing_commit(type, dr_x, dr_y, freq_x, freq_y) ==
    [smoother_type |-> type,
     damping_ratio_x |-> dr_x, damping_ratio_y |-> dr_y,
     target_freq_x |-> freq_x, target_freq_y |-> freq_y]

\* set_smoothing_push with a loop that starts at the second recorded wrapper
set_smoothing_push_from_second(sks, type, dr_x, dr_y, freq_x, freq_y) ==
    [s \in Steppers |->
        IF \E i \in 2..Len(sks) : sks[i] = <<"smooth", s>>
        THEN <<smooth_axis_set_params(type, type, freq_x, freq_y, dr_x, dr_y)>>
        ELSE sk_params[s]]

\* lines 75-78: the parameters pushed to every recorded wrapper
set_smoothing_push(sks, type, dr_x, dr_y, freq_x, freq_y) ==
    [s \in Steppers |->
        IF \E i \in 1..Len(sks) : sks[i] = <<"smooth", s>>
        THEN <<smooth_axis_set_params(type, type, freq_x, freq_y, dr_x, dr_y)>>
        ELSE sk_params[s]]

\* the controller's parameters as they are
self_ctl ==
    [smoother_type |-> smoother_type,
     damping_ratio_x |-> damping_ratio_x, damping_ratio_y |-> damping_ratio_y,
     target_freq_x |-> target_freq_x, target_freq_y |-> target_freq_y]

\* set_smoothing with line 62 after lines 63-66: old_smooth_time is read from
\* the half-smooth-times just stored
set_smoothing_old_after(cur_x, cur_y, sks, type, dr_x, dr_y, freq_x, freq_y, accept) ==
    LET h == set_smoothing_hst(type, dr_x, dr_y, freq_x, freq_y)
        old_smooth_time == Max(h.x, h.y)
        new_smooth_time == Max(h.x, h.y)
        returned == note_step_generation_scan_time(new_smooth_time,
                                                   old_smooth_time, accept)
    IN  [hst_x |-> h.x, hst_y |-> h.y,
         notes |-> <<[delay |-> new_smooth_time, old_delay |-> old_smooth_time]>>,
         raised |-> ~returned,
         ctl |-> IF returned
                 THEN set_smoothing_commit(type, dr_x, dr_y, freq_x, freq_y)
                 ELSE self_ctl,
         sk_params |-> IF returned
                       THEN set_smoothing_push(sks, type, dr_x, dr_y, freq_x, freq_y)
                       ELSE sk_params]

\* _set_smoothing (lines 58-78), entered with hst_x/hst_y = cur_x/cur_y and
\* stepper_kinematics = sks; notes lists the planner notifications it made
set_smoothing(cur_x, cur_y, sks, type, dr_x, dr_y, freq_x, freq_y, accept) ==
    LET old_smooth_time == Max(cur_x, cur_y)
        h == set_smoothing_hst(type, dr_x, dr_y, freq_x, freq_y)
        new_smooth_time == Max(h.x, h.y)
        returned == note_step_generation_scan_time(new_smooth_time,
                                                   old_smooth_time, accept)
    IN  [hst_x |-> h.x, hst_y |-> h.y,
         notes |-> <<[delay |-> new_smooth_time, old_delay |-> old_smooth_time]>>,
         raised |-> ~returned,
         ctl |-> IF returned
                 THEN set_smoothing_commit(type, dr_x, dr_y, freq_x, freq_y)
                 ELSE self_ctl,
         sk_params |-> IF returned
                       THEN set_smoothing_push(sks, type, dr_x, dr_y, freq_x, freq_y)
                       ELSE sk_params]

\* bind_stepper without line 48: a failed wrap leaves the wrapper installed
bind_stepper_no_restore(b, s, res) ==
    IF res < 0
    THEN [b EXCEPT !.stepper_sk[s] = <<"smooth", s>>]
    ELSE [stepper_sk |-> [b.stepper_sk EXCEPT ![s] = <<"smooth", s>>],
          stepper_trapq |-> [b.stepper_trapq EXCEPT ![s] = TRUE],
          stepper_kinematics |-> Append(b.stepper_kinematics, <<"smooth", s>>),
          orig_stepper_kinematics |-> Append(b.orig_stepper_kinematics,
                                             b.stepper_sk[s])]

\* one iteration of connect's loop (lines 44-52); res is smooth_axis_set_sk's result
bind_stepper(b, s, res) ==
    LET sk == <<"smooth", s>>
        orig_sk == b.stepper_sk[s]
    IN  IF res < 0
        THEN [b EXCEPT !.stepper_sk[s] = orig_sk]
        ELSE [stepper_sk |-> [b.stepper_sk EXCEPT ![s] = sk],
              stepper_trapq |-> [b.stepper_trapq EXCEPT ![s] = TRUE],
              stepper_kinematics |-> Append(b.stepper_kinematics, sk),
              orig_stepper_kinematics |-> Append(b.orig_stepper_kinematics, orig_sk)]

\* connect's loop over kin.get_steppers() (line 43)
RECURSIVE connect_loop(_, _, _)
connect_loop(b, s, res) ==
    IF s > NumSteppers THEN b
    ELSE connect_loop(bind_stepper(b, s, res[s]), s + 1, res)

\* connect_post without line 54: _set_smoothing is entered with hst_x and
\* hst_y as they were
connect_post_keep_hst(res, accept) ==
    LET b == connect_loop([stepper_sk |-> stepper_sk,
                           stepper_trapq |-> stepper_trapq,
                           stepper_kinematics |-> stepper_kinematics,
                           orig_stepper_kinematics |-> orig_stepper_kinematics],
                          1, res)
        r == set_smoothing(hst_x, hst_y, b.stepper_kinematics, smoother_type,
                           damping_ratio_x, damping_ratio_y,
                           target_freq_x, target_freq_y, accept)
    IN  [bind |-> b, ctl |-> r.ctl, hst_x |-> r.hst_x, hst_y |-> r.hst_y,
         sk_params |-> r.sk_params, notes |-> r.notes,
         result |-> IF r.raised THEN "planner.error" ELSE "ok",
         respond |-> <<>>]

\* what connect (lines 37-57) leaves behind
connect_post(res, accept) ==
    LET b == connect_loop([stepper_sk |-> stepper_sk,
                           stepper_trapq |-> stepper_trapq,
                           stepper_kinematics |-> stepper_kinematics,
                           orig_stepper_kinematics |-> orig_stepper_kinematics],
                          1, res)
        r == set_smoothing(0, 0, b.stepper_kinematics, smoother_type,
                           damping_ratio_x, damping_ratio_y,
                           target_freq_x, target_freq_y, accept)
    IN  [bind |-> b, ctl |-> r.ctl, hst_x |-> r.hst_x, hst_y |-> r.hst_y,
         sk_params |-> r.sk_params, notes |-> r.notes,
         result |-> IF r.raised THEN "planner.error" ELSE "ok",
         respond |-> <<>>]

connect(res, accept) ==
    /\ toolhead = "None"
    /\ \E r \in {connect_post(res, accept)} :
        /\ toolhead' = "toolhead"
        /\ stepper_sk' = r.bind.stepper_sk
        /\ stepper_trapq' = r.bind.stepper_trapq
        /\ stepper_kinematics' = r.bind.stepper_kinematics
        /\ orig_stepper_kinematics' = r.bind.orig_stepper_kinematics
        /\ smoother_type' = r.ctl.smoother_type
        /\ damping_ratio_x' = r.ctl.damping_ratio_x
        /\ damping_ratio_y' = r.ctl.damping_ratio_y
        /\ target_freq_x' = r.ctl.target_freq_x
        /\ target_freq_y' = r.ctl.target_freq_y
        /\ hst_x' = r.hst_x
        /\ hst_y' = r.hst_y
        /\ sk_params' = r.sk_params
        /\ scan_time' = r.notes[Len(r.notes)].delay
        /\ last' = [op |-> "connect", result |-> r.result,
                    noted |-> r.notes # <<>>, respond |-> r.respond]

\* cmd_floats with DAMPING_RATIO_Y read without maxval
cmd_floats_no_maxval(params) ==
    LET dr_x == get_float(params.DAMPING_RATIO_X, damping_ratio_x,
                          damping_minval, <<damping_maxval>>)
        dr_y == get_float(params.DAMPING_RATIO_Y, damping_ratio_y,
                          damping_minval, <<>>)
        f_x == get_float(params.TARGET_FREQ_X, target_freq_x, freq_minval, <<>>)
        f_y == get_float(params.TARGET_FREQ_Y, target_freq_y, freq_minval, <<>>)
    IN  [ok |-> dr_x.ok /\ dr_y.ok /\ f_x.ok /\ f_y.ok,
         damping_ratio_x |-> dr_x.v, damping_ratio_y |-> dr_y.v,
         target_freq_x |-> f_x.v, target_freq_y |-> f_y.v]

\* lines 82-91: the four get_float calls
cmd_floats(params) ==
    LET dr_x == get_float(params.DAMPING_RATIO_X, damping_ratio_x,
                          damping_minval, <<damping_maxval>>)
        dr_y == get_float(params.DAMPING_RATIO_Y, damping_ratio_y,
                          damping_minval, <<damping_maxval>>)
        f_x == get_float(params.TARGET_FREQ_X, target_freq_x, freq_minval, <<>>)
        f_y == get_float(params.TARGET_FREQ_Y, target_freq_y, freq_minval, <<>>)
    IN  [ok |-> dr_x.ok /\ dr_y.ok /\ f_x.ok /\ f_y.ok,
         damping_ratio_x |-> dr_x.v, damping_ratio_y |-> dr_y.v,
         target_freq_x |-> f_x.v, target_freq_y |-> f_y.v]

\* line 96: evaluating self.gcode.error, then raising it
raise_gcode_error ==
    IF "gcode" \in SelfAttrs THEN "gcode.error" ELSE "AttributeError"

\* cmd_smoother taking the configured default for a name it does not know
cmd_smoother_default(params) ==
    IF params.SMOOTHER = <<>>
    THEN [ok |-> TRUE, v |-> smoother_type, exc |-> "none"]
    ELSE LET smoother_type_str == lower(params.SMOOTHER[1])
         IN  IF smoother_type_str \notin DOMAIN smoothers
             THEN [ok |-> TRUE, v |-> smoothers["sifp05"], exc |-> "none"]
             ELSE [ok |-> TRUE, v |-> smoothers[smoother_type_str], exc |-> "none"]

\* lines 92-99: the smoother the command selects
cmd_smoother(params) ==
    IF params.SMOOTHER = <<>>
    THEN [ok |-> TRUE, v |-> smoother_type, exc |-> "none"]
    ELSE LET smoother_type_str == lower(params.SMOOTHER[1])
         IN  IF smoother_type_str \notin DOMAIN smoothers
             THEN [ok |-> FALSE, v |-> smoother_type, exc |-> raise_gcode_error]
             ELSE [ok |-> TRUE, v |-> smoothers[smoother_type_str], exc |-> "none"]

\* "%.9f" (lines 105-106) of a number v >= 0: the text shows the whole units
\* and the rest rounded to the nearest 1e-9, that is to ten units of 1e-10
fmt9(v) == [units |-> v \div 100, nano |-> ((v % 100) + 5) \div 10]

\* lines 102-103: the name under which self.smoothers holds the type
smoother_name(type) == CHOOSE n \in DOMAIN smoothers : smoothers[n] = type

\* respond_info with the two frequencies in each other's place
respond_info_swapped(type, freq_x, freq_y, dr_x, dr_y) ==
    [smoother_type |-> smoother_name(type),
     target_freq_x |-> fmt9(freq_y), target_freq_y |-> fmt9(freq_x),
     damping_ratio_x |-> fmt9(dr_x), damping_ratio_y |-> fmt9(dr_y)]

\* lines 102-108: the confirmation
respond_info(type, freq_x, freq_y, dr_x, dr_y) ==
    [smoother_type |-> smoother_name(type),
     target_freq_x |-> fmt9(freq_x), target_freq_y |-> fmt9(freq_y),
     damping_ratio_x |-> fmt9(dr_x), damping_ratio_y |-> fmt9(dr_y)]

\* a command that raised exc before _set_smoothing was entered
cmd_rejected(exc) ==
    [ctl |-> self_ctl, hst_x |-> hst_x, hst_y |-> hst_y, sk_params |-> sk_params,
     notes |-> <<>>, result |-> exc, respond |-> <<>>]

\* lines 100-108, entered with the validated values fl and the smoother type
cmd_apply(fl, type, accept) ==
    LET r == set_smoothing(hst_x, hst_y, stepper_kinematics, type,
                           fl.damping_ratio_x, fl.damping_ratio_y,
                           fl.target_freq_x, fl.target_freq_y, accept)
    IN  [ctl |-> r.ctl, hst_x |-> r.hst_x, hst_y |-> r.hst_y,
         sk_params |-> r.sk_params, notes |-> r.notes,
         result |-> IF r.raised THEN "planner.error" ELSE "ok",
         respond |-> IF r.raised THEN <<>>
                     ELSE <<respond_info(type, fl.target_freq_x, fl.target_freq_y,
                                         fl.damping_ratio_x, fl.damping_ratio_y)>>]

\* what cmd_SET_SMOOTH_AXIS (lines 80-108) leaves behind
cmd_post(params, accept) ==
    LET fl == cmd_floats(params)
        sm == cmd_smoother(params)
    IN  IF ~fl.ok THEN cmd_rejected("gcode.error")
        ELSE IF ~sm.ok THEN cmd_rejected(sm.exc)
        ELSE cmd_apply(fl, sm.v, accept)

cmd_SET_SMOOTH_AXIS(params, accept) ==
    /\ toolhead # "None"
    /\ UNCHANGED <<toolhead, bind>>
    /\ \E r \in {cmd_post(params, accept)} :
        /\ smoother_type' = r.ctl.smoother_type
        /\ damping_ratio_x' = r.ctl.damping_ratio_x
        /\ damping_ratio_y' = r.ctl.damping_ratio_y
        /\ target_freq_x' = r.ctl.target_freq_x
        /\ target_freq_y' = r.ctl.target_freq_y
        /\ hst_x' = r.hst_x
        /\ hst_y' = r.hst_y
        /\ sk_params' = r.sk_params
        /\ scan_time' = IF r.notes = <<>> THEN scan_time
                        ELSE r.notes[Len(r.notes)].delay
        /\ last' = [op |-> "cmd", result |-> r.result,
                    noted |-> r.notes # <<>>, respond |-> r.respond]

\* the steppers connect meets under Spec: all wrappable, or all but the first
SomeWrapResults ==
    {[s \in Steppers |-> 0], [s \in Steppers |-> IF s = 1 THEN 0 - 1 ELSE 0]}

\* the commands of SpecBind: at most one parameter
OneParam == UNION {ParamsOn(K) : K \in {J \in SUBSET ParamKeys : Cardinality(J) <= 1}}

\* in Spec, SpecBind and SpecEcho a handler runs from entry to exit in one step
Next ==
    \/ \E res \in SomeWrapResults, accept \in BOOLEAN :
          connect(res, accept) /\ UNCHANGED aux
    \/ \E params \in CmdParams, accept \in BOOLEAN :
          cmd_SET_SMOOTH_AXIS(params, accept) /\ UNCHANGED aux

Spec == Init /\ [][Next]_vars

NextBind ==
    \/ \E res \in WrapResults, accept \in BOOLEAN :
          connect(res, accept) /\ UNCHANGED aux
    \/ \E params \in OneParam, accept \in BOOLEAN :
          cmd_SET_SMOOTH_AXIS(params, accept) /\ UNCHANGED aux

SpecBind == Init /\ [][NextBind]_vars

\* numbers with more than nine decimals: 40.0000000007 Hz and 0.1000000004
FineFreqs == {4007}
FineDampings == {104}

\* the commands of SpecEcho: at most one parameter, fine values included
EchoParams ==
    {NoParams}
    \cup {[NoParams EXCEPT !.SMOOTHER = <<n>>] : n \in CmdSmoothers}
    \cup {[NoParams EXCEPT ![k] = <<f>>] :
              k \in {"TARGET_FREQ_X", "TARGET_FREQ_Y"},
              f \in Freqs \cup FineFreqs \cup BadFreqs}
    \cup {[NoParams EXCEPT ![k] = <<d>>] :
              k \in {"DAMPING_RATIO_X", "DAMPING_RATIO_Y"},
              d \in Dampings \cup FineDampings \cup BadDampings}

NextEcho ==
    \/ \E accept \in BOOLEAN :
          connect([s \in Steppers |-> 0], accept) /\ UNCHANGED aux
    \/ \E params \in EchoParams, accept \in BOOLEAN :
          cmd_SET_SMOOTH_AXIS(params, accept) /\ UNCHANGED aux

SpecEcho == Init /\ [][NextEcho]_vars

\* ------------------------------------------- a command, statement by statement

\* push_steps with the values of the X axis and of the Y axis written by two
\* calls per wrapper
push_steps_per_axis(sks, type, dr_x, dr_y, freq_x, freq_y) ==
    [i \in 1..(2 * Len(sks)) |->
        LET s == sks[(i + 1) \div 2][2]
            new == smooth_axis_set_params(type, type, freq_x, freq_y, dr_x, dr_y)
        IN  [e |-> "push", s |-> s,
             params |-> IF i % 2 = 0 \/ sk_params[s] = <<>> THEN new
                        ELSE [sk_params[s][1] EXCEPT
                                 !.type_x = new.type_x,
                                 !.target_freq_x = new.target_freq_x,
                                 !.damping_ratio_x = new.damping_ratio_x]]]

\* lines 75-78 as steps: one smooth_axis_set_params call per recorded wrapper,
\* carrying all six values
push_steps(sks, type, dr_x, dr_y, freq_x, freq_y) ==
    [i \in 1..Len(sks) |->
        [e |-> "push", s |-> sks[i][2],
         params |-> smooth_axis_set_params(type, type, freq_x, freq_y, dr_x, dr_y)]]

\* _set_smoothing (lines 58-78) as the steps it takes, in the order of the code
set_smoothing_steps(cur_x, cur_y, sks, type, dr_x, dr_y, freq_x, freq_y, accept) ==
    LET old_smooth_time == Max(cur_x, cur_y)
        h == set_smoothing_hst(type, dr_x, dr_y, freq_x, freq_y)
        new_smooth_time == Max(h.x, h.y)
        returned == note_step_generation_scan_time(new_smooth_time,
                                                   old_smooth_time, accept)
    IN  <<[e |-> "hst", hst_x |-> h.x, hst_y |-> h.y],
          [e |-> "note", delay |-> new_smooth_time, returned |-> returned]>>
        \o (IF returned
            THEN <<[e |-> "commit",
                    ctl |-> set_smoothing_commit(type, dr_x, dr_y, freq_x, freq_y)]>>
                 \o push_steps(sks, type, dr_x, dr_y, freq_x, freq_y)
            ELSE <<>>)

\* lines 100-108 as steps, entered with the validated values fl and the type
cmd_steps(fl, type, accept) ==
    LET st == set_smoothing_steps(hst_x, hst_y, stepper_kinematics, type,
                                  fl.damping_ratio_x, fl.damping_ratio_y,
                                  fl.target_freq_x, fl.target_freq_y, accept)
    IN  st \o <<IF st[2].returned
                THEN [e |-> "return", result |-> "ok",
                      respond |-> <<respond_info(type, fl.target_freq_x,
                                                 fl.target_freq_y, fl.damping_ratio_x,
                                                 fl.damping_ratio_y)>>]
                ELSE [e |-> "return", result |-> "planner.error", respond |-> <<>>]>>

\* lines 80-99: the command is entered and validated; a rejected command ends
\* here, a valid one has the steps of lines 100-108 ahead
cmd_enter(params, accept) ==
    /\ toolhead # "None"
    /\ pending = <<>>
    /\ UNCHANGED <<toolhead, ctl, hst, bind, sk_params, scan_time, hist>>
    /\ seen' = <<>>
    /\ \E fl \in {cmd_floats(params)}, sm \in {cmd_smoother(params)} :
          IF fl.ok /\ sm.ok
          THEN /\ pending' = cmd_steps(fl, sm.v, accept)
               /\ run' = <<[old_sk |-> sk_params, window |-> scan_time,
                            new_ctl |-> set_smoothing_commit(sm.v,
                                           fl.damping_ratio_x, fl.damping_ratio_y,
                                           fl.target_freq_x, fl.target_freq_y)]>>
               /\ last' = last
          ELSE /\ pending' = <<>>
               /\ run' = <<>>
               /\ last' = [op |-> "cmd",
                           result |-> IF ~fl.ok THEN "gcode.error" ELSE sm.exc,
                           noted |-> FALSE, respond |-> <<>>]

\* lines 63-66
step_hst ==
    /\ pending # <<>> /\ Head(pending).e = "hst"
    /\ hst_x' = Head(pending).hst_x
    /\ hst_y' = Head(pending).hst_y
    /\ pending' = Tail(pending)
    /\ UNCHANGED <<toolhead, ctl, bind, sk_params, scan_time, last, run, seen, hist>>

\* lines 67-69
step_note ==
    /\ pending # <<>> /\ Head(pending).e = "note"
    /\ scan_time' = Head(pending).delay
    /\ pending' = Tail(pending)
    /\ UNCHANGED <<toolhead, ctl, hst, bind, sk_params, last, run, seen, hist>>

\* lines 70-74
step_commit ==
    /\ pending # <<>> /\ Head(pending).e = "commit"
    /\ smoother_type' = Head(pending).ctl.smoother_type
    /\ damping_ratio_x' = Head(pending).ctl.damping_ratio_x
    /\ damping_ratio_y' = Head(pending).ctl.damping_ratio_y
    /\ target_freq_x' = Head(pending).ctl.target_freq_x
    /\ target_freq_y' = Head(pending).ctl.target_freq_y
    /\ pending' = Tail(pending)
    /\ UNCHANGED <<toolhead, hst, bind, sk_params, scan_time, last, run, seen, hist>>

\* lines 75-78, one wrapper
step_push ==
    /\ pending # <<>> /\ Head(pending).e = "push"
    /\ sk_params' = [sk_params EXCEPT ![Head(pending).s] = <<Head(pending).params>>]
    /\ pending' = Tail(pending)
    /\ UNCHANGED <<toolhead, ctl, hst, bind, scan_time, last, run, seen, hist>>

\* the command ends: with the confirmation of lines 102-108, or with the
\* exception that left _set_smoothing at line 68
step_return ==
    /\ pending # <<>> /\ Head(pending).e = "return"
    /\ last' = [op |-> "cmd", result |-> Head(pending).result,
                noted |-> TRUE, respond |-> Head(pending).respond]
    /\ pending' = <<>>
    /\ run' = <<>>
    /\ seen' = <<>>
    /\ UNCHANGED <<toolhead, ctl, hst, bind, sk_params, scan_time, hist>>

\* step generation reads the parameters of stepper s while a command runs
read_sk(s) ==
    /\ pending # <<>>
    /\ seen' = <<s, sk_params[s]>>
    /\ UNCHANGED <<toolhead, ctl, hst, bind, sk_params, scan_time, last, pending, run, hist>>

\* the commands of SpecSteps: at most two parameters
StepParams == UNION {ParamsOn(K) : K \in {J \in SUBSET ParamKeys : Cardinality(J) <= 2}}

NextSteps ==
    \/ \E accept \in BOOLEAN :
          connect([s \in Steppers |-> 0], accept) /\ UNCHANGED aux
    \/ \E params \in StepParams, accept \in BOOLEAN : cmd_enter(params, accept)
    \/ step_hst
    \/ step_note
    \/ step_commit
    \/ step_push
    \/ step_return
    \/ \E s \in Steppers : read_sk(s)

SpecSteps == Init /\ [][NextSteps]_vars

\* ------------------------------------------------ the same command, repeated

\* hist after a command with the parameters params that ended with result
hist_after(params, result) ==
    IF result # "ok" THEN <<>>
    ELSE IF hist # <<>> /\ hist[1] = params THEN <<params, params>>
    ELSE <<params>>

NextTwice ==
    \/ \E accept \in BOOLEAN :
          /\ connect([s \in Steppers |-> 0], accept)
          /\ hist' = <<>>
          /\ UNCHANGED steps
    \/ \E params \in StepParams, accept \in BOOLEAN :
          /\ cmd_SET_SMOOTH_AXIS(params, accept)
          /\ hist' = hist_after(params, last'.result)
          /\ UNCHANGED steps

SpecTwice == Init /\ [][NextTwice]_vars

\* ------------------------------------------------------------------ claims

\* C1: once connected, the window last communicated to the planner is never
\* smaller than the larger half-smooth-time of the parameters in effect.
C1_MonotonicSafety ==
    toolhead # "None" =>
        scan_time >= Max(half_smooth_time(smoother_type, target_freq_x, damping_ratio_x),
                         half_smooth_time(smoother_type, target_freq_y, damping_ratio_y))

\* C2: after connect or a successful command, hst_x and hst_y are the
\* half-smooth-times of the committed parameters.
C2_HstOfCommitted ==
    (last.op \in {"connect", "cmd"} /\ last.result = "ok") =>
        /\ hst_x = half_smooth_time(smoother_type, target_freq_x, damping_ratio_x)
        /\ hst_y = half_smooth_time(smoother_type, target_freq_y, damping_ratio_y)

\* C3: a command whose planner notification fails leaves the filter state
\* (parameters and hst_x/hst_y) and every binding's parameters as they were.
C3_AtomicOnRejection ==
    [][(last'.op = "cmd" /\ last'.result = "planner.error") =>
           (ctl' = ctl /\ hst' = hst /\ sk_params' = sk_params)]_vars

\* what a command leaves of the filter state and the bindings
Untouched(r) ==
    /\ r.ctl = self_ctl
    /\ r.hst_x = hst_x
    /\ r.hst_y = hst_y
    /\ r.sk_params = sk_params

\* a numeric parameter of the command is outside its range: a damping ratio
\* outside [0, 1] (encoded 0..1000) or a negative target frequency
HasOutOfRange(params) ==
    \/ \E k \in {"DAMPING_RATIO_X", "DAMPING_RATIO_Y"} :
          params[k] # <<>> /\ (params[k][1] < 0 \/ params[k][1] > 1000)
    \/ \E k \in {"TARGET_FREQ_X", "TARGET_FREQ_Y"} :
          params[k] # <<>> /\ params[k][1] < 0

\* the command names a smoother the catalog does not hold
HasUnknownSmoother(params) ==
    params.SMOOTHER # <<>> /\ lower(params.SMOOTHER[1]) \notin DOMAIN smoothers

\* C4: a command with an out-of-range numeric parameter is rejected with the
\* command error, changes no filter state and no binding, does not call the
\* planner and emits nothing, whatever else it carries.
C4_OutOfRangeRejected ==
    toolhead # "None" =>
        \A params \in CmdParams, accept \in BOOLEAN :
            HasOutOfRange(params) =>
                \A r \in {cmd_post(params, accept)} :
                    /\ r.result = "gcode.error"
                    /\ Untouched(r)
                    /\ r.notes = <<>>
                    /\ r.respond = <<>>

C4_Witness ==
    /\ last.op = "cmd"
    /\ last.result = "gcode.error"
    /\ ~last.noted
    /\ scan_time > 0
    /\ \E s \in Steppers : sk_params[s] # <<>> /\ sk_params[s][1].target_freq_x > 0

\* C5: a command naming an unknown smoother fails and changes no filter state
\* and no binding, does not call the planner and emits no confirmation, also
\* when it carries valid numeric parameters.
C5_UnknownSmootherNoEffect ==
    toolhead # "None" =>
        \A params \in CmdParams, accept \in BOOLEAN :
            HasUnknownSmoother(params) =>
                \A r \in {cmd_post(params, accept)} :
                    /\ r.result \notin {"ok", "planner.error"}
                    /\ Untouched(r)
                    /\ r.notes = <<>>
                    /\ r.respond = <<>>

C5_Witness ==
    /\ last.op = "cmd"
    /\ last.result \notin {"ok", "planner.error", "gcode.error"}
    /\ ~last.noted
    /\ last.respond = <<>>
    /\ scan_time > 0
    /\ \E s \in Steppers : sk_params[s] # <<>> /\ sk_params[s][1].target_freq_y > 0

\* C6: an unknown smoother name (in a command whose numeric parameters are in
\* range) is reported as the gcode command error.
C6_UnknownSmootherIsCommandError ==
    [][\A params \in CmdParams :
          (HasUnknownSmoother(params) /\ ~HasOutOfRange(params)
           /\ cmd_SET_SMOOTH_AXIS(params, TRUE))
          => last'.result = "gcode.error"]_vars

\* the command repeats the parameters in effect, or carries none
SameAsActive(params) ==
    /\ params.SMOOTHER # <<>> =>
          (lower(params.SMOOTHER[1]) \in DOMAIN smoothers
           /\ smoothers[lower(params.SMOOTHER[1])] = smoother_type)
    /\ params.TARGET_FREQ_X # <<>> => params.TARGET_FREQ_X[1] = target_freq_x
    /\ params.TARGET_FREQ_Y # <<>> => params.TARGET_FREQ_Y[1] = target_freq_y
    /\ params.DAMPING_RATIO_X # <<>> => params.DAMPING_RATIO_X[1] = damping_ratio_x
    /\ params.DAMPING_RATIO_Y # <<>> => params.DAMPING_RATIO_Y[1] = damping_ratio_y

\* C7: a command repeating the active parameters (or carrying none), which the
\* planner accepts, succeeds and leaves the communicated window and
\* hst_x/hst_y as they were.
C7_Idempotent ==
    [][\A params \in CmdParams :
          (SameAsActive(params) /\ cmd_SET_SMOOTH_AXIS(params, TRUE))
          => (last'.result = "ok" /\ scan_time' = scan_time /\ hst' = hst)]_vars

\* the value a command gives parameter k, as the controller stores it
Provided(params, k) ==
    IF k = "SMOOTHER" THEN smoothers[lower(params[k][1])] ELSE params[k][1]

\* the controller's field of parameter k, in a record of parameters
Field(c, k) ==
    CASE k = "SMOOTHER" -> c.smoother_type
      [] k = "TARGET_FREQ_X" -> c.target_freq_x
      [] k = "TARGET_FREQ_Y" -> c.target_freq_y
      [] k = "DAMPING_RATIO_X" -> c.damping_ratio_x
      [] k = "DAMPING_RATIO_Y" -> c.damping_ratio_y

\* C8: after a successful command every omitted parameter has its former
\* value and every provided parameter has the provided value.
C8_OmittedKept ==
    toolhead # "None" =>
        \A params \in CmdParams, accept \in BOOLEAN :
            \A r \in {cmd_post(params, accept)} :
                r.result = "ok" =>
                    \A k \in ParamKeys :
                        Field(r.ctl, k) = IF params[k] = <<>> THEN Field(self_ctl, k)
                                          ELSE Provided(params, k)

C8_Witness ==
    /\ last.op = "cmd"
    /\ last.result = "ok"
    /\ smoother_type = smoothers["siaf05"]
    /\ target_freq_x = 4000
    /\ target_freq_y = 0
    /\ damping_ratio_x = 0
    /\ damping_ratio_y = 100

\* C9: the window a successful command passes to the planner is the larger
\* half-smooth-time of the parameters that command commits.
C9_WindowOfCommitted ==
    (last.op = "cmd" /\ last.result = "ok") =>
        /\ last.noted
        /\ scan_time = Max(half_smooth_time(smoother_type, target_freq_x, damping_ratio_x),
                           half_smooth_time(smoother_type, target_freq_y, damping_ratio_y))

\* stepper s carries the smoothing kinematics, its trapq is set, and its
\* (wrapper, original) pair is recorded at one index of the two lists of b
BoundIn(b, s) ==
    /\ b.stepper_sk[s] = <<"smooth", s>>
    /\ b.stepper_trapq[s]
    /\ \E i \in 1..Len(b.stepper_kinematics) :
          /\ i <= Len(b.orig_stepper_kinematics)
          /\ b.stepper_kinematics[i] = <<"smooth", s>>
          /\ b.orig_stepper_kinematics[i] = <<"orig", s>>

\* stepper s carries its original kinematics and nothing is recorded for it
NativeIn(b, s) ==
    /\ b.stepper_sk[s] = <<"orig", s>>
    /\ ~b.stepper_trapq[s]
    /\ \A i \in 1..Len(b.stepper_kinematics) :
          b.stepper_kinematics[i] # <<"smooth", s>>
    /\ \A i \in 1..Len(b.orig_stepper_kinematics) :
          b.orig_stepper_kinematics[i] # <<"orig", s>>

self_bind ==
    [stepper_sk |-> stepper_sk, stepper_trapq |-> stepper_trapq,
     stepper_kinematics |-> stepper_kinematics,
     orig_stepper_kinematics |-> orig_stepper_kinematics]

\* C10: connect binds every stepper whose wrap succeeds and leaves every
\* stepper whose wrap fails with its original kinematics and nothing recorded;
\* a failed wrap keeps no other stepper from being bound and from receiving
\* the initial parameters; the bindings stay so afterwards.
C10_BindAllOrNothing ==
    /\ toolhead = "None" =>
          \A res \in WrapResults :
              \A r \in {connect_post(res, TRUE)} :
                  /\ r.result = "ok"
                  /\ Len(r.bind.stepper_kinematics) =
                         Len(r.bind.orig_stepper_kinematics)
                  /\ \A s \in Steppers :
                        IF res[s] < 0
                        THEN NativeIn(r.bind, s) /\ r.sk_params[s] = <<>>
                        ELSE /\ BoundIn(r.bind, s)
                             /\ r.sk_params[s] =
                                  <<smooth_axis_set_params(
                                      smoother_type, smoother_type,
                                      target_freq_x, target_freq_y,
                                      damping_ratio_x, damping_ratio_y)>>
    /\ toolhead # "None" =>
          \A s \in Steppers : BoundIn(self_bind, s) \/ NativeIn(self_bind, s)

C10_Witness ==
    /\ last.op = "connect"
    /\ last.result = "ok"
    /\ \E s1, s2 \in Steppers :
          /\ s1 < s2
          /\ NativeIn(self_bind, s1)
          /\ BoundIn(self_bind, s2)
          /\ sk_params[s1] = <<>>
          /\ sk_params[s2] # <<>>
          /\ sk_params[s2][1].target_freq_x > 0

\* the number a "%.9f" text denotes, encoded like the numbers of the model
text_value(t) == t.units * 100 + t.nano * 10

\* C11 as claimed: a successful command emits exactly one confirmation, whose
\* name is the committed smoother's and whose four numbers equal the committed
\* values; a command that ended in an error emits none.
C11_EchoEqualsCommitted ==
    last.op = "cmd" =>
        IF last.result = "ok"
        THEN /\ Len(last.respond) = 1
             /\ smoothers[last.respond[1].smoother_type] = smoother_type
             /\ text_value(last.respond[1].target_freq_x) = target_freq_x
             /\ text_value(last.respond[1].target_freq_y) = target_freq_y
             /\ text_value(last.respond[1].damping_ratio_x) = damping_ratio_x
             /\ text_value(last.respond[1].damping_ratio_y) = damping_ratio_y
        ELSE last.respond = <<>>

\* the text t denotes v to within half of 1e-9
Within9(t, v) == text_value(t) - v \in (0 - 5)..5

\* C11 amended: a successful command emits exactly one confirmation, whose
\* name is the committed smoother's and whose four numbers are the committed
\* values to nine decimal places; a command that ended in an error emits none.
C11_EchoIsCommittedToNinePlaces ==
    last.op = "cmd" =>
        IF last.result = "ok"
        THEN /\ Len(last.respond) = 1
             /\ smoothers[last.respond[1].smoother_type] = smoother_type
             /\ Within9(last.respond[1].target_freq_x, target_freq_x)
             /\ Within9(last.respond[1].target_freq_y, target_freq_y)
             /\ Within9(last.respond[1].damping_ratio_x, damping_ratio_x)
             /\ Within9(last.respond[1].damping_ratio_y, damping_ratio_y)
        ELSE last.respond = <<>>

\* a confirmed command that committed 40.0000000007 Hz and kept a damping
\* ratio of 0.1000000004: the text shows 40.000000001 and 0.100000000
C11_Witness ==
    /\ last.op = "cmd"
    /\ last.result = "ok"
    /\ target_freq_x = 4007
    /\ target_freq_y = 0
    /\ damping_ratio_y = 104
    /\ last.respond = <<respond_info(smoother_type, 4007, 0, damping_ratio_x, 104)>>
    /\ text_value(last.respond[1].target_freq_x) = 4010
    /\ text_value(last.respond[1].damping_ratio_y) = 100

\* the half-smooth-time the parameters c require on one axis
H_x(c) == half_smooth_time(c.smoother_type, c.target_freq_x, c.damping_ratio_x)
H_y(c) == half_smooth_time(c.smoother_type, c.target_freq_y, c.damping_ratio_y)

\* the command that led to r changed parameters of the Y axis only, and Y was
\* the axis with the smaller half-smooth-time, stored and required, and stays so
OnlySmallerYChanged(r) ==
    /\ r.ctl # self_ctl
    /\ r.ctl.smoother_type = smoother_type
    /\ r.ctl.target_freq_x = target_freq_x
    /\ r.ctl.damping_ratio_x = damping_ratio_x
    /\ hst_y < hst_x
    /\ H_y(self_ctl) < H_x(self_ctl)
    /\ H_y(r.ctl) < H_x(r.ctl)

\* C12: every notification carries max(hst_x, hst_y) from before the change as
\* the old window and max(hst_x, hst_y) from after it as the new one, and a
\* successful command that changes only the axis with the smaller
\* half-smooth-time, which stays the smaller, communicates the window
\* communicated last.
C12_WindowIsMaxOfAxes ==
    toolhead # "None" =>
        \A params \in CmdParams, accept \in BOOLEAN :
            \A r \in {cmd_post(params, accept)} :
                /\ \A i \in 1..Len(r.notes) :
                       /\ r.notes[i].old_delay = Max(hst_x, hst_y)
                       /\ r.notes[i].delay = Max(r.hst_x, r.hst_y)
                /\ (r.result = "ok" /\ OnlySmallerYChanged(r)) =>
                       r.notes[1].delay = scan_time

\* C13: when the window proposal of connect is refused, every stepper ends up
\* with its original kinematics, and the controller accepts later commands.
C13_PassthroughOnRefusal ==
    (last.op = "connect" /\ last.result = "planner.error") =>
        /\ \A s \in Steppers : stepper_sk[s] = <<"orig", s>>
        /\ toolhead # "None"

\* the running command has passed the statement(s) named in kinds
Passed(kinds) == \A i \in 1..Len(pending) : pending[i].e \notin kinds

\* the planner accepted the window of the running command
Returned == pending # <<>> /\ pending[Len(pending)].result = "ok"

\* the running command has stored its parameters in the controller
Committed == Returned /\ Passed({"hst", "note", "commit"})

\* the wrapper of stepper s has received the parameters of the running command
Received(s) ==
    /\ Committed
    /\ \E i \in 1..Len(stepper_kinematics) : stepper_kinematics[i] = <<"smooth", s>>
    /\ \A i \in 1..Len(pending) : pending[i].e = "push" => pending[i].s # s

\* the scan window the parameters c require
Window(c) == Max(H_x(c), H_y(c))

\* C14: in a command whose parameters require a larger window than the one
\* communicated when it was entered, the planner has been told a window at
\* least that large by the time the parameters are stored in the controller
\* or received by a wrapper.
C14_GrowNotifiedFirst ==
    (run # <<>> /\ Window(run[1].new_ctl) > run[1].window
        /\ (Committed \/ \E s \in Steppers : Received(s))) =>
            scan_time >= Window(run[1].new_ctl)

\* the scan window the parameters p installed in a wrapper require
Need(p) ==
    Max(half_smooth_time(p.type_x, p.target_freq_x, p.damping_ratio_x),
        half_smooth_time(p.type_y, p.target_freq_y, p.damping_ratio_y))

\* the wrapper of stepper s still holds the parameters it held when the
\* running command was entered
StillInstalled(s) == sk_params[s] # <<>> /\ sk_params[s] = run[1].old_sk[s]

\* C15: from the notification of a running command on, the window
\* communicated to the planner is never smaller than the window required by
\* parameters a wrapper still holds from before the command; a smaller
\* window is told only when no wrapper depends on a larger one.
C15_ShrinkAfterRelease ==
    (run # <<>> /\ Passed({"hst", "note"})) =>
        \A s \in Steppers :
            StillInstalled(s) => scan_time >= Need(sk_params[s][1])

\* a running command has told the planner a smaller window than the one in
\* force at its entry, while a wrapper still holds its earlier parameters
C15_Witness ==
    /\ run # <<>>
    /\ Passed({"hst", "note"})
    /\ scan_time < run[1].window
    /\ \E s \in Steppers :
          /\ StillInstalled(s)
          /\ \E i \in 1..Len(pending) : pending[i].e = "push" /\ pending[i].s = s

\* the full parameter set of the configuration c
ParamSet(c) ==
    smooth_axis_set_params(c.smoother_type, c.smoother_type,
                           c.target_freq_x, c.target_freq_y,
                           c.damping_ratio_x, c.damping_ratio_y)

\* C16: what a reader sees in a wrapper while a command runs is the complete
\* parameter set the wrapper held at the command's entry or the complete
\* parameter set of the command, never a mixture.
C16_NoTornRead ==
    seen # <<>> =>
        seen[2] \in {run[1].old_sk[seen[1]], <<ParamSet(run[1].new_ctl)>>}

\* a reader has seen the complete new set in one wrapper, with a new X
\* frequency and a new X damping ratio, while another wrapper holds the old set
C16_Witness ==
    /\ seen # <<>>
    /\ run[1].old_sk[seen[1]] # <<>>
    /\ seen[2] = <<ParamSet(run[1].new_ctl)>>
    /\ seen[2][1].target_freq_x # run[1].old_sk[seen[1]][1].target_freq_x
    /\ seen[2][1].damping_ratio_x # run[1].old_sk[seen[1]][1].damping_ratio_x
    /\ \E s \in Steppers :
          /\ s # seen[1]
          /\ sk_params[s] = run[1].old_sk[s]
          /\ sk_params[s] # seen[2]

\* stepper s is bound: its wrapper is recorded in stepper_kinematics
Bound(s) == \E i \in 1..Len(stepper_kinematics) : stepper_kinematics[i] = <<"smooth", s>>

\* C17: after connect and after every successful command, the wrapper of
\* every bound stepper holds exactly the parameters committed in the
\* controller, the smoother type for both axes.
C17_BindingsHoldCommitted ==
    (last.op \in {"connect", "cmd"} /\ last.result = "ok") =>
        \A s \in Steppers : Bound(s) => sk_params[s] = <<ParamSet(self_ctl)>>

\* a successful command has set a frequency the configuration did not have;
\* the bound stepper holds it, the stepper that could not be wrapped holds none
C17_Witness ==
    /\ last.op = "cmd"
    /\ last.result = "ok"
    /\ target_freq_x = 4000
    /\ hst_x = 0
    /\ Bound(2)
    /\ sk_params[2] = <<ParamSet(self_ctl)>>
    /\ ~Bound(1)
    /\ sk_params[1] = <<>>

\* C18: connect makes one notification, with the old window 0 and the new
\* window max(H(configured X), H(configured Y)); when it completes, hst_x and
\* hst_y are the half-smooth-times of the configured parameters, the
\* controller holds the configured parameters and so does every wrapper.
C18_ConnectFromZero ==
    toolhead = "None" =>
        \A res \in SomeWrapResults, accept \in BOOLEAN :
            \A r \in {connect_post(res, accept)} :
                /\ r.notes = <<[delay |-> Window(self_ctl), old_delay |-> 0]>>
                /\ r.result = "ok" =>
                      /\ r.hst_x = H_x(self_ctl)
                      /\ r.hst_y = H_y(self_ctl)
                      /\ r.ctl = self_ctl
                      /\ \A s \in Steppers :
                            res[s] = 0 => r.sk_params[s] = <<ParamSet(self_ctl)>>

\* connect has completed with a configuration of two different
\* half-smooth-times: the window is the larger, the wrapper holds the parameters
C18_Witness ==
    /\ last.op = "connect"
    /\ last.result = "ok"
    /\ hst_x = H_x(self_ctl)
    /\ hst_y = H_y(self_ctl)
    /\ hst_y > hst_x
    /\ scan_time = hst_y
    /\ sk_params[2] = <<ParamSet(self_ctl)>>

\* C19: connect notifies the planner exactly once, with the old window 0; a
\* command that passes validation notifies it exactly once, with the new
\* window of the preceding notification as the old window; a command that
\* fails validation does not notify it.
C19_NotificationChain ==
    /\ toolhead = "None" =>
          \A res \in SomeWrapResults, accept \in BOOLEAN :
              \A r \in {connect_post(res, accept)} :
                  Len(r.notes) = 1 /\ r.notes[1].old_delay = 0
    /\ toolhead # "None" =>
          \A params \in CmdParams, accept \in BOOLEAN :
              \A r \in {cmd_post(params, accept)} :
                  IF HasOutOfRange(params) \/ HasUnknownSmoother(params)
                  THEN r.notes = <<>>
                  ELSE Len(r.notes) = 1 /\ r.notes[1].old_delay = scan_time

\* after a notification made by a command, of a positive window, a next
\* command notifies a smaller window and passes the positive one as the old
C19_Witness ==
    /\ last.op = "cmd"
    /\ last.noted
    /\ scan_time > 0
    /\ \E params \in OneParam :
          \E r \in {cmd_post(params, TRUE)} :
              /\ Len(r.notes) = 1
              /\ r.notes[1].old_delay = scan_time
              /\ r.notes[1].delay < scan_time

\* C20: after two consecutive successful commands with the same parameters,
\* the controller holds them, hst_x and hst_y are the half-smooth-times of
\* the committed parameters, and the window last communicated is their max.
C20_SettledBySecond ==
    Len(hist) = 2 =>
        /\ \A k \in ParamKeys :
              hist[2][k] # <<>> => Field(self_ctl, k) = Provided(hist[2], k)
        /\ hst_x = H_x(self_ctl)
        /\ hst_y = H_y(self_ctl)
        /\ scan_time = Window(self_ctl)

\* the same two-parameter command has succeeded twice, on a controller whose
\* wrappers hold a frequency of 40 Hz on X that needs the window 5500
C20_Witness ==
    /\ Len(hist) = 2
    /\ hist[2].TARGET_FREQ_X = <<4000>>
    /\ hist[2].DAMPING_RATIO_X = <<100>>
    /\ target_freq_y = 0
    /\ hst_x = 5500
    /\ scan_time = 5500
    /\ Bound(1)
    /\ sk_params[1] = <<ParamSet(self_ctl)>>

====
